---------------------------- MODULE Spec2Model ----------------------------
(***************************************************************************)
(* SkyPortal front end: the redux store (the branch reducers and the root  *)
(* reducer), the bounded plot cache kept by plotsReducer, and the Source   *)
(* view's route/cache coherency check.                                     *)
(*                                                                         *)
(* JavaScript objects are functions from field names to values; the empty  *)
(* object is the function with the empty domain.  Plot urls are strings in *)
(* the program (object keys); here they are numbered 1, 2, ... so that a   *)
(* url that was never requested before can be named.                       *)
(***************************************************************************)
EXTENDS Integers, Sequences, FiniteSets, TLC

VARIABLES
  store,       \* the redux store: one value per branch of the root reducer
  duckGroup,   \* the state kept by the group duck's reducer
  prevStore,   \* the store before the last dispatched action: the snapshot a
               \* reader took then, as it is after the reducers ran
  prevDuck,    \* duckGroup before the last dispatched action
  lastAction,  \* the last dispatched action
  nPuts,       \* number of FETCH_SOURCE_PLOT_OK actions dispatched so far
  nRePuts,     \* ... of which the url was already in the cache
  firstPut,    \* url -> ordinal of the put that (last) inserted it as a new key
  mounted,     \* whether the Source view is mounted
  route,       \* route.id of the Source view (NoRoute while it is not mounted)
  inflight,    \* source id -> number of fetchSource requests not yet settled
  errorFor,    \* the id whose failed fetch set loadError (NoRoute: none did)
  navNeeds,    \* whether the coherency check needed a fetch at the last navigation
  navFetches,  \* fetchSource(route.id) dispatches since the last navigation
  renders,     \* renders of the Source view since the last navigation
  log,         \* the actions passed to store.dispatch, in dispatch order
  shMounted,   \* whether the share form is mounted
  shRoute,     \* route.id of the share form (NoRoute while it is not mounted)
  photometry,  \* state.photometry: source id -> the ids of its photometry points
  spectra,     \* state.spectra: source id -> the ids of its spectra
  selectedPhotRows,  \* row indices (from 0) selected in the photometry table
  selectedSpecRows,  \* row indices (from 0) selected in the spectra table
  isSubmitting,      \* the form's isSubmitting state
  formGroups,  \* the value of the form's groups field
  errorsGroups,      \* errors.groups of the form
  shareReq,    \* the shareData requests not yet settled
  shFetched,   \* the source ids whose photometry and spectra the form requested
  pickedPhot,  \* selected row index -> id of the record in that row when it was selected
  pickedSpec,  \* the same for the spectra table
  formEvent,   \* what the last step did if it was a submit click or the settling
               \* of a request, "none" after any other step
  slMounted,   \* whether the source list view is mounted
  slNeeded,    \* whether sources.latest was null when the list view mounted
  slFetches,   \* fetchSources dispatches of the list view since it mounted
  slRenders,   \* renders of the list view since it mounted
  slInflight,  \* fetchSources requests not yet settled
  spRoute,     \* route.id of the spectra page (NoRoute while it is not mounted)
  spRenders,   \* renders of the spectra page that reached the sort
  mainPhase,   \* the main view: "unmounted", "hydrating" (componentDidMount
               \* waits for the hydrate dispatch) or "settled" (it has settled)
  rotations    \* ROTATE_LOGO dispatches of the main view since it mounted

storeVars == <<store, duckGroup, prevStore, prevDuck, lastAction>>
plotVars == <<nPuts, nRePuts, firstPut>>
viewVars == <<mounted, route, inflight, errorFor, navNeeds, navFetches, renders>>
formVars == <<shMounted, shRoute, photometry, spectra, selectedPhotRows,
              selectedSpecRows, isSubmitting, formGroups, errorsGroups, shareReq,
              shFetched, pickedPhot, pickedSpec, formEvent>>
listVars == <<slMounted, slNeeded, slFetches, slRenders, slInflight>>
pageVars == <<spRoute, spRenders>>
mainVars == <<mainPhase, rotations>>
moreVars == <<listVars, pageVars, mainVars>>
otherVars == <<log, formVars, moreVars>>
vars == <<storeVars, plotVars, viewVars, otherVars>>

-----------------------------------------------------------------------------
(* Bounds of the model *)

\* puts dispatched to the plot cache in SpecPlots
MaxPuts == 43
\* puts of an already cached url among them
MaxRePuts == 2
\* FETCH_SOURCE_PLOT_OK actions dispatched in SpecStore
MaxStorePuts == 1
\* fetchSource requests in flight at once
MaxInflight == 2
\* renders of the Source view counted after one navigation
MaxRenders == 3
\* actions dispatched in SpecDispatch
MaxLog == 4
\* fetchSources requests in flight at once
MaxListInflight == 2
\* renders of the source list view counted after it mounted
MaxListRenders == 3
\* renders of the spectra page counted after it mounted
MaxPageRenders == 3

-----------------------------------------------------------------------------
(* JavaScript object helpers *)

\* {}
EmptyObj == [k \in {} |-> ""]

\* { ...f, ...g }
Merge(f, g) ==
  [k \in (DOMAIN f) \cup (DOMAIN g) |-> IF k \in DOMAIN g THEN g[k] ELSE f[k]]

\* const { k1, ..., ...rest } = f   (the rest)
Without(f, ks) == [k \in (DOMAIN f) \ ks |-> f[k]]

\* the set of elements of an array
Elems(s) == {s[i] : i \in 1..Len(s)}

-----------------------------------------------------------------------------
(* Action types *)

REFRESH_GROUP == "REFRESH_GROUP"
FETCH_GROUP == "FETCH_GROUP"
FETCH_LOADED_SOURCE_OK == "FETCH_LOADED_SOURCE_OK"
FETCH_LOADED_SOURCE_FAIL == "FETCH_LOADED_SOURCE_FAIL"
FETCH_SOURCES_OK == "FETCH_SOURCES_OK"
FETCH_GROUP_OK == "FETCH_GROUP_OK"
FETCH_GROUP_FAIL == "FETCH_GROUP_FAIL"
FETCH_GROUPS_OK == "FETCH_GROUPS_OK"
FETCH_USER_OK == "FETCH_USER_OK"
FETCH_USER_PROFILE_OK == "FETCH_USER_PROFILE_OK"
FETCH_SOURCE_PLOT_OK == "FETCH_SOURCE_PLOT_OK"
ROTATE_LOGO == "ROTATE_LOGO"

-----------------------------------------------------------------------------
(* The plot cache: plotsReducer *)

\* the capacity of the plot cache
PlotCapacity == 40

\* plotIDList.length = 40 after the unshift
Truncate(plotIDList) ==
  IF Len(plotIDList) >= PlotCapacity
    THEN SubSeq(plotIDList, 1, PlotCapacity)
    ELSE plotIDList

\* a sweep that forgets to delete: plotData is returned as it is
SweepNothing(plotData, plotIDList) == plotData

\* Object.keys(plotData).forEach(ID => { if (!plotIDList.includes(ID)) delete plotData[ID] })
Sweep(plotData, plotIDList) ==
  [ID \in {k \in DOMAIN plotData : k \in Elems(plotIDList)} |-> plotData[ID]]

plotsDefault == [plotData |-> EmptyObj, plotIDList |-> <<>>]

\* a reducer that unshifts, assigns and sweeps on state.plotData and
\* state.plotIDList themselves: its input ends up holding its result
plotsInputInPlace(state, action) ==
  IF action.type = FETCH_SOURCE_PLOT_OK
    THEN LET url == action.data.url
             unshifted == <<url>> \o state.plotIDList
             assigned == Merge(state.plotData, [k \in {url} |-> Without(action.data, {"url"})])
         IN  IF Len(unshifted) >= PlotCapacity
               THEN [plotData |-> Sweep(assigned, Truncate(unshifted)),
                     plotIDList |-> Truncate(unshifted)]
               ELSE [plotData |-> assigned, plotIDList |-> unshifted]
    ELSE state

\* what the reducer's input holds after the reducer ran:
\* const plotData = { ...state.plotData }; const plotIDList = state.plotIDList.slice();
\* every write goes to the copies
plotsInput(state, action) == state

\* default: the cache is emptied by any other action
plotsReducerDefaultEmpties(state, action) ==
  IF action.type = FETCH_SOURCE_PLOT_OK
    THEN [plotData |-> Merge(state.plotData,
                             [k \in {action.data.url} |-> Without(action.data, {"url"})]),
          plotIDList |-> <<action.data.url>> \o state.plotIDList]
    ELSE plotsDefault

plotsReducer(state, action) ==
  IF action.type = FETCH_SOURCE_PLOT_OK
    THEN LET url == action.data.url
             incomingData == Without(action.data, {"url"})
             unshifted == <<url>> \o state.plotIDList
             assigned == Merge(state.plotData, [k \in {url} |-> incomingData])
         IN  IF Len(unshifted) >= PlotCapacity
               THEN [plotData |-> Sweep(assigned, Truncate(unshifted)),
                     plotIDList |-> Truncate(unshifted)]
               ELSE [plotData |-> assigned, plotIDList |-> unshifted]
    ELSE state


-----------------------------------------------------------------------------
(* The other branch reducers.  Payload values the reducers only store are  *)
(* opaque tokens; null is the token "null".                                *)

sourceDefault == [source |-> "null", loadError |-> FALSE]

\* FETCH_LOADED_SOURCE_FAIL forgets what was loaded
sourceReducerFailResets(state, action) ==
  IF action.type = FETCH_LOADED_SOURCE_OK
    THEN Merge(Merge(state, action.data), [loadError |-> FALSE])
    ELSE IF action.type = FETCH_LOADED_SOURCE_FAIL
      THEN [loadError |-> TRUE]
      ELSE state

\* { ...source, ...state }: what the branch holds wins over the payload
sourceReducerStateWins(state, action) ==
  IF action.type = FETCH_LOADED_SOURCE_OK
    THEN Merge(Merge(action.data, state), [loadError |-> FALSE])
    ELSE IF action.type = FETCH_LOADED_SOURCE_FAIL
      THEN Merge(state, [loadError |-> TRUE])
      ELSE state

sourceReducer(state, action) ==
  IF action.type = FETCH_LOADED_SOURCE_OK
    THEN Merge(Merge(state, action.data), [loadError |-> FALSE])
    ELSE IF action.type = FETCH_LOADED_SOURCE_FAIL
      THEN Merge(state, [loadError |-> TRUE])
      ELSE state

sourcesDefault == [latest |-> "null"]

sourcesReducer(state, action) ==
  IF action.type = FETCH_SOURCES_OK
    THEN Merge(state, [latest |-> action.data])
    ELSE state

groupDefault == EmptyObj

groupReducer(state, action) ==
  IF action.type = FETCH_GROUP_OK
    THEN action.data
    ELSE state

\* the reducer of the group duck
reducer(state, action) ==
  IF action.type = FETCH_GROUP_OK
    THEN action.data.group
    ELSE IF action.type = FETCH_GROUP_FAIL
      THEN EmptyObj
      ELSE state

groupsDefault == [latest |-> "[]", all |-> "null"]

groupsReducer(state, action) ==
  IF action.type = FETCH_GROUPS_OK
    THEN Merge(state, [latest |-> action.data.user_groups,
                       all |-> action.data.all_groups])
    ELSE state

usersDefault == EmptyObj

usersReducer(state, action) ==
  IF action.type = FETCH_USER_OK
    THEN Merge(state, [k \in {action.data.id} |-> Without(action.data, {"id"})])
    ELSE state

profileDefault == [username |-> "", roles |-> "[]", acls |-> "[]", tokens |-> "[]"]

profileReducer(state, action) ==
  IF action.type = FETCH_USER_PROFILE_OK
    THEN action.data
    ELSE state

miscDefault == [rotateLogo |-> FALSE]

\* default: return the initial state
miscReducerDefaultResets(state, action) ==
  IF action.type = ROTATE_LOGO
    THEN Merge(state, [rotateLogo |-> TRUE])
    ELSE miscDefault

miscReducer(state, action) ==
  IF action.type = ROTATE_LOGO
    THEN Merge(state, [rotateLogo |-> TRUE])
    ELSE state

\* combineReducers({ source, sources, group, groups, profile, plots, misc, users })
\* (the notifications branch belongs to baselayer and is left out)
root(state, action) ==
  [source |-> sourceReducer(state.source, action),
   sources |-> sourcesReducer(state.sources, action),
   group |-> groupReducer(state.group, action),
   groups |-> groupsReducer(state.groups, action),
   profile |-> profileReducer(state.profile, action),
   plots |-> plotsReducer(state.plots, action),
   misc |-> miscReducer(state.misc, action),
   users |-> usersReducer(state.users, action)]

\* the action types each reducer has a case for
Handled(branch) ==
  CASE branch = "source" -> {FETCH_LOADED_SOURCE_OK, FETCH_LOADED_SOURCE_FAIL}
    [] branch = "sources" -> {FETCH_SOURCES_OK}
    [] branch = "group" -> {FETCH_GROUP_OK}
    [] branch = "duckGroup" -> {FETCH_GROUP_OK, FETCH_GROUP_FAIL}
    [] branch = "groups" -> {FETCH_GROUPS_OK}
    [] branch = "users" -> {FETCH_USER_OK}
    [] branch = "profile" -> {FETCH_USER_PROFILE_OK}
    [] branch = "plots" -> {FETCH_SOURCE_PLOT_OK}
    [] branch = "misc" -> {ROTATE_LOGO}

Branches == {"source", "sources", "group", "groups", "users", "profile", "plots", "misc"}

-----------------------------------------------------------------------------
(* The store *)

\* the state of a store created by configureStore({}): every reducer's default
storeDefault ==
  [source |-> sourceDefault,
   sources |-> sourcesDefault,
   group |-> groupDefault,
   groups |-> groupsDefault,
   profile |-> profileDefault,
   plots |-> plotsDefault,
   misc |-> miscDefault,
   users |-> usersDefault]

NoRoute == "none"

SourceIds == {"A", "B"}

\* what the server returns for a source
SourceData(id) ==
  IF id = "A" THEN [id |-> "A", ra |-> "ra_A", redshift |-> "z_A"]
              ELSE [id |-> id, ra |-> "ra_B"]

\* the action redux dispatches when the store is created
InitAction == [type |-> "@@redux/INIT"]

\* store.dispatch(action): the reducers run to completion in one step
Dispatch(action) ==
  /\ store' = root(store, action)
  /\ duckGroup' = reducer(duckGroup, action)
  /\ prevStore' = [store EXCEPT !.plots = plotsInput(store.plots, action)]
  /\ prevDuck' = duckGroup
  /\ lastAction' = action

Init ==
  /\ store = storeDefault
  /\ duckGroup = EmptyObj
  /\ prevStore = storeDefault
  /\ prevDuck = EmptyObj
  /\ lastAction = InitAction
  /\ nPuts = 0
  /\ nRePuts = 0
  /\ firstPut = EmptyObj
  /\ mounted = FALSE
  /\ route = NoRoute
  /\ inflight = [id \in SourceIds |-> 0]
  /\ errorFor = NoRoute
  /\ navNeeds = FALSE
  /\ navFetches = 0
  /\ renders = 0
  /\ log = <<>>
  /\ shMounted = FALSE
  /\ shRoute = NoRoute
  /\ photometry = EmptyObj
  /\ spectra = EmptyObj
  /\ selectedPhotRows = {}
  /\ selectedSpecRows = {}
  /\ isSubmitting = FALSE
  /\ formGroups = {}
  /\ errorsGroups = FALSE
  /\ shareReq = <<>>
  /\ shFetched = {}
  /\ pickedPhot = EmptyObj
  /\ pickedSpec = EmptyObj
  /\ formEvent = "none"
  /\ slMounted = FALSE
  /\ slNeeded = FALSE
  /\ slFetches = 0
  /\ slRenders = 0
  /\ slInflight = 0
  /\ spRoute = NoRoute
  /\ spRenders = 0
  /\ mainPhase = "unmounted"
  /\ rotations = 0

-----------------------------------------------------------------------------
(* SpecPlots: FETCH_SOURCE_PLOT_OK actions only *)

PlotUrls == 1..(MaxPuts + 1)

\* the plot payload: a first fetch of a url, or a later fetch of it
PlotPayload(cached) == IF cached THEN "plot_v2" ELSE "plot_v1"

PlotOK(url, payload) ==
  [type |-> FETCH_SOURCE_PLOT_OK, data |-> [url |-> url, plot |-> payload]]

\* the lowest url that was never requested
NextUrl == Cardinality(DOMAIN firstPut) + 1

PutGhost(url) ==
  /\ nPuts' = nPuts + 1
  /\ nRePuts' = IF url \in DOMAIN store.plots.plotData THEN nRePuts + 1 ELSE nRePuts
  /\ firstPut' = IF url \in DOMAIN store.plots.plotData
                   THEN firstPut
                   ELSE Merge(firstPut, [k \in {url} |-> nPuts + 1])

\* the plot of a url that is not cached arrives
PutNew ==
  \E url \in PlotUrls :
    /\ nPuts < MaxPuts
    /\ url = NextUrl
    /\ Dispatch(PlotOK(url, PlotPayload(FALSE)))
    /\ PutGhost(url)
    /\ UNCHANGED <<viewVars, otherVars>>

\* the plot of a cached url arrives again: the url put last, or the oldest one
PutCached ==
  \E url \in PlotUrls :
    /\ nPuts < MaxPuts
    /\ nRePuts < MaxRePuts
    /\ store.plots.plotIDList # <<>>
    /\ url \in {Head(store.plots.plotIDList),
                store.plots.plotIDList[Len(store.plots.plotIDList)]}
    /\ Dispatch(PlotOK(url, PlotPayload(TRUE)))
    /\ PutGhost(url)
    /\ UNCHANGED <<viewVars, otherVars>>

NextPlots == PutNew \/ PutCached

SpecPlots == Init /\ [][NextPlots]_vars

-----------------------------------------------------------------------------
(* SpecStore: the actions the request layer and the views dispatch, in any *)
(* order                                                                   *)

SourceOKAction(id) == [type |-> FETCH_LOADED_SOURCE_OK, data |-> SourceData(id)]
SourceFailAction == [type |-> FETCH_LOADED_SOURCE_FAIL]
SourcesPayloads == {"sources_1", "sources_2"}
SourcesOKAction(p) == [type |-> FETCH_SOURCES_OK, data |-> p]
GroupOKAction ==
  [type |-> FETCH_GROUP_OK, data |-> [group |-> [id |-> "g1", name |-> "group_1"]]]
GroupFailAction == [type |-> FETCH_GROUP_FAIL]
GroupsOKAction ==
  [type |-> FETCH_GROUPS_OK, data |-> [user_groups |-> "ug_1", all_groups |-> "ag_1"]]
UserOKAction == [type |-> FETCH_USER_OK, data |-> [id |-> "u1", username |-> "user_1"]]
ProfileOKAction ==
  [type |-> FETCH_USER_PROFILE_OK,
   data |-> [username |-> "me", roles |-> "r_1", acls |-> "a_1", tokens |-> "t_1"]]
RotateLogoAction == [type |-> ROTATE_LOGO]
\* types no reducer has a case for: a refresh request and a pending fetch
OtherTypes == {REFRESH_GROUP, FETCH_GROUP}
OtherAction(t) == [type |-> t]
StorePlotUrls == {1, 2}

SourceOK == \E id \in SourceIds : Dispatch(SourceOKAction(id)) /\ UNCHANGED <<plotVars, viewVars, otherVars>>
SourceFail == Dispatch(SourceFailAction) /\ UNCHANGED <<plotVars, viewVars, otherVars>>
SourcesOK == \E p \in SourcesPayloads : Dispatch(SourcesOKAction(p)) /\ UNCHANGED <<plotVars, viewVars, otherVars>>
GroupOK == Dispatch(GroupOKAction) /\ UNCHANGED <<plotVars, viewVars, otherVars>>
GroupFail == Dispatch(GroupFailAction) /\ UNCHANGED <<plotVars, viewVars, otherVars>>
GroupsOK == Dispatch(GroupsOKAction) /\ UNCHANGED <<plotVars, viewVars, otherVars>>
UserOK == Dispatch(UserOKAction) /\ UNCHANGED <<plotVars, viewVars, otherVars>>
ProfileOK == Dispatch(ProfileOKAction) /\ UNCHANGED <<plotVars, viewVars, otherVars>>
RotateLogo == Dispatch(RotateLogoAction) /\ UNCHANGED <<plotVars, viewVars, otherVars>>
Other == \E t \in OtherTypes : Dispatch(OtherAction(t)) /\ UNCHANGED <<plotVars, viewVars, otherVars>>
StorePlotOK ==
  \E url \in StorePlotUrls :
    /\ nPuts < MaxStorePuts
    /\ Dispatch(PlotOK(url, PlotPayload(url \in DOMAIN store.plots.plotData)))
    /\ PutGhost(url)
    /\ UNCHANGED <<viewVars, otherVars>>

NextStore ==
  \/ SourceOK
  \/ SourceFail
  \/ SourcesOK
  \/ GroupOK
  \/ GroupFail
  \/ GroupsOK
  \/ UserOK
  \/ ProfileOK
  \/ RotateLogo
  \/ Other
  \/ StorePlotOK

SpecStore == Init /\ [][NextStore]_vars

-----------------------------------------------------------------------------
(* SpecSource: the Source view (the hooks version of Source.jsx) over the  *)
(* source branch.  fetchSource(id) issues a request that settles later     *)
(* with FETCH_LOADED_SOURCE_OK, carrying the source, or with               *)
(* FETCH_LOADED_SOURCE_FAIL.                                               *)

\* a check that takes a branch without an id for a match
isCachedWithoutId(source, routeId) == "id" \notin DOMAIN source \/ source.id = routeId

\* const cachedSourceID = source ? source.id : null; return route.id === cachedSourceID
isCached(source, routeId) == "id" \in DOMAIN source /\ source.id = routeId

\* what the component returns
Render(source, routeId) ==
  IF source.loadError THEN "Could not retrieve requested source"
  ELSE IF ~isCached(source, routeId) THEN "Loading..."
  ELSE IF "id" \notin DOMAIN source THEN "Source not found"
  ELSE "loaded"

\* an effect without a dependency list: it runs after every render
RunsAfterEveryRender(phase) == TRUE

\* useEffect(..., []): the effect runs after the first render of a mount only
EffectRuns(phase) == phase = "mount"

\* the identifiers differ, the cache is empty, or a load error is recorded
NeedsFetch(source, routeId) == ~isCached(source, routeId) \/ source.loadError

InflightTotal == inflight["A"] + inflight["B"]

\* the effect: if (!isCached()) dispatch(Action.fetchSource(route.id))
Effect(phase, routeId, already) ==
  IF EffectRuns(phase) /\ ~isCached(store.source, routeId)
    THEN /\ InflightTotal < MaxInflight
         /\ inflight' = [inflight EXCEPT ![routeId] = @ + 1]
         /\ navFetches' = already + 1
    ELSE /\ inflight' = inflight
         /\ navFetches' = already

\* the router shows the Source view for /source/:id
Mount ==
  \E id \in SourceIds :
    /\ ~mounted
    /\ mounted' = TRUE
    /\ route' = id
    /\ navNeeds' = NeedsFetch(store.source, id)
    /\ renders' = 1
    /\ Effect("mount", id, 0)
    /\ UNCHANGED <<otherVars, storeVars, plotVars, errorFor>>

\* the route's id changes while the view stays mounted
RouteChange ==
  \E id \in SourceIds :
    /\ mounted
    /\ id # route
    /\ route' = id
    /\ navNeeds' = NeedsFetch(store.source, id)
    /\ renders' = 1
    /\ Effect("update", id, 0)
    /\ UNCHANGED <<otherVars, storeVars, plotVars, mounted, errorFor>>

\* the view renders again with the same route
Rerender ==
  /\ mounted
  /\ renders < MaxRenders
  /\ renders' = renders + 1
  /\ Effect("update", route, navFetches)
  /\ UNCHANGED <<otherVars, storeVars, plotVars, mounted, route, errorFor, navNeeds>>

Unmount ==
  /\ mounted
  /\ mounted' = FALSE
  /\ route' = NoRoute
  /\ UNCHANGED <<otherVars, storeVars, plotVars, inflight, errorFor, navNeeds, navFetches, renders>>

\* a fetchSource request succeeds
FetchSettlesOK ==
  \E id \in SourceIds :
    /\ inflight[id] > 0
    /\ inflight' = [inflight EXCEPT ![id] = @ - 1]
    /\ Dispatch(SourceOKAction(id))
    /\ errorFor' = NoRoute
    /\ UNCHANGED <<otherVars, plotVars, mounted, route, navNeeds, navFetches, renders>>

\* a fetchSource request fails
FetchSettlesFail ==
  \E id \in SourceIds :
    /\ inflight[id] > 0
    /\ inflight' = [inflight EXCEPT ![id] = @ - 1]
    /\ Dispatch(SourceFailAction)
    /\ errorFor' = id
    /\ UNCHANGED <<otherVars, plotVars, mounted, route, navNeeds, navFetches, renders>>

NextSource ==
  \/ Mount
  \/ RouteChange
  \/ Rerender
  \/ Unmount
  \/ FetchSettlesOK
  \/ FetchSettlesFail

SpecSource == Init /\ [][NextSource]_vars

\* every fetchSource request that was dispatched settles, with OK or with FAIL
FetchesSettle == WF_vars(FetchSettlesOK \/ FetchSettlesFail)

SpecSourceLive == Init /\ [][NextSource]_vars /\ FetchesSettle

-----------------------------------------------------------------------------
(* SpecDispatch: the two writers of the store.  The message handler of the *)
(* push channel and the request layer both hold store.dispatch of the one  *)
(* store of Main.jsx; each call runs the root reducer to completion.       *)

\* the handler's dispatch belongs to a store of its own
HandlerDispatchOtherStore(action) == UNCHANGED storeVars

\* new CustomMessageHandler(store.dispatch, store.getState)
HandlerDispatch(action) == Dispatch(action)

\* <WebSocket dispatch={store.dispatch} />, store.dispatch(Action.hydrate())
StoreDispatch(action) == Dispatch(action)

\* a push frame is handled: the handler dispatches the action it maps to
PushSourceUpdate ==
  \E id \in SourceIds :
    /\ Len(log) < MaxLog
    /\ HandlerDispatch(SourceOKAction(id))
    /\ log' = Append(log, SourceOKAction(id))
    /\ UNCHANGED <<plotVars, viewVars, formVars, moreVars>>

PushSourcesUpdate ==
  \E p \in SourcesPayloads :
    /\ Len(log) < MaxLog
    /\ HandlerDispatch(SourcesOKAction(p))
    /\ log' = Append(log, SourcesOKAction(p))
    /\ UNCHANGED <<plotVars, viewVars, formVars, moreVars>>

\* a request settles: its terminal action is dispatched
RequestSourceOK ==
  \E id \in SourceIds :
    /\ Len(log) < MaxLog
    /\ StoreDispatch(SourceOKAction(id))
    /\ log' = Append(log, SourceOKAction(id))
    /\ UNCHANGED <<plotVars, viewVars, formVars, moreVars>>

RequestSourceFail ==
  /\ Len(log) < MaxLog
  /\ StoreDispatch(SourceFailAction)
  /\ log' = Append(log, SourceFailAction)
  /\ UNCHANGED <<plotVars, viewVars, formVars, moreVars>>

RequestGroupsOK ==
  /\ Len(log) < MaxLog
  /\ StoreDispatch(GroupsOKAction)
  /\ log' = Append(log, GroupsOKAction)
  /\ UNCHANGED <<plotVars, viewVars, formVars, moreVars>>

\* componentDidMount: store.dispatch(Action.rotateLogo())
MountRotateLogo ==
  /\ Len(log) < MaxLog
  /\ StoreDispatch(RotateLogoAction)
  /\ log' = Append(log, RotateLogoAction)
  /\ UNCHANGED <<plotVars, viewVars, formVars, moreVars>>

NextDispatch ==
  \/ PushSourceUpdate
  \/ PushSourcesUpdate
  \/ RequestSourceOK
  \/ RequestSourceFail
  \/ RequestGroupsOK
  \/ MountRotateLogo

SpecDispatch == Init /\ [][NextDispatch]_vars

-----------------------------------------------------------------------------
(* SpecShare: the share-data form (ShareDataForm.jsx) of one source route.  *)
(* state.photometry and state.spectra map a source id to the list of its    *)
(* records; a record is named by its id.  The tables hold the selection as  *)
(* row indices, counted from 0 as in the program.                           *)

\* the records the server holds for a source, in the order of its version v
PhotBase(id) == IF id = "A" THEN 10 ELSE 20
SpecBase(id) == IF id = "A" THEN 30 ELSE 40
PhotVersions(id) == IF id = "A" THEN {1, 2} ELSE {1}
SpecVersions(id) == IF id = "A" THEN {1, 2} ELSE {1}
\* version 2 of a photometry list is version 1 in another order
PhotData(id, v) ==
  IF v = 1 THEN <<PhotBase(id) + 1, PhotBase(id) + 2>>
           ELSE <<PhotBase(id) + 2, PhotBase(id) + 1>>
\* version 2 of a list of spectra is version 1 after its last spectrum was deleted
SpecData(id, v) ==
  IF v = 1 THEN <<SpecBase(id) + 1, SpecBase(id) + 2>>
           ELSE <<SpecBase(id) + 1>>

GroupOptions == {"g1"}

\* rows of a table: the indices of the list, from 0
Rows(list) == 0 .. (Len(list) - 1)

\* if ((!photometry[route.id] && !spectra[route.id]) || !groups) return Loading
FormShown ==
  /\ shMounted
  /\ shRoute \in DOMAIN photometry \/ shRoute \in DOMAIN spectra
  /\ store.groups.all # "null"

validateGroupsAcceptsEmpty(formState) == Cardinality(formState.groups) >= 0

\* formState.groups.length >= 1
validateGroups(formState) == Cardinality(formState.groups) >= 1

\* selectedRows.map((idx) => list[route.id][idx].id) returns: no index is
\* applied to an undefined list or names an undefined element
Resolves(selected, lists) ==
  selected # {} => (shRoute \in DOMAIN lists /\ selected \subseteq Rows(lists[shRoute]))

ResolveIDs(selected, lists) == [idx \in selected |-> lists[shRoute][idx + 1]]

Toggle(selected, idx) ==
  IF idx \in selected THEN selected \ {idx} ELSE selected \cup {idx}

TogglePicked(picked, idx, list) ==
  IF idx \in DOMAIN picked THEN Without(picked, {idx})
  ELSE Merge(picked, [i \in {idx} |-> list[idx + 1]])

\* the component mounts at /share_data/:id; its effect requests both lists
ShareMount ==
  \E id \in SourceIds :
    /\ ~shMounted
    /\ shMounted' = TRUE
    /\ shRoute' = id
    /\ shFetched' = shFetched \cup {id}
    /\ formEvent' = "none"
    /\ UNCHANGED <<photometry, spectra, selectedPhotRows, selectedSpecRows,
                   isSubmitting, formGroups, errorsGroups, shareReq,
                   pickedPhot, pickedSpec>>
    /\ UNCHANGED <<storeVars, plotVars, viewVars, log, moreVars>>

\* the route parameter changes under the mounted component: the effect runs
\* again for the new id, the state of the hooks stays
ShareRouteChange ==
  \E id \in SourceIds \ {shRoute} :
    /\ shMounted
    /\ shRoute' = id
    /\ shFetched' = shFetched \cup {id}
    /\ UNCHANGED <<selectedPhotRows, selectedSpecRows, pickedPhot, pickedSpec>>
    /\ formEvent' = "none"
    /\ UNCHANGED <<shMounted, photometry, spectra, isSubmitting, formGroups,
                   errorsGroups, shareReq>>
    /\ UNCHANGED <<storeVars, plotVars, viewVars, log, moreVars>>

\* the component unmounts: its hooks' state is dropped, and a request still
\* in flight can no longer reach a mounted form
ShareUnmount ==
  /\ shMounted
  /\ shMounted' = FALSE
  /\ shRoute' = NoRoute
  /\ selectedPhotRows' = {}
  /\ selectedSpecRows' = {}
  /\ pickedPhot' = EmptyObj
  /\ pickedSpec' = EmptyObj
  /\ isSubmitting' = FALSE
  /\ formGroups' = {}
  /\ errorsGroups' = FALSE
  /\ shareReq' = <<>>
  /\ formEvent' = "none"
  /\ UNCHANGED <<photometry, spectra, shFetched>>
  /\ UNCHANGED <<storeVars, plotVars, viewVars, log, moreVars>>

\* hydrate: the groups arrive in the store
ShareGroupsLoaded ==
  /\ store.groups.all = "null"
  /\ Dispatch(GroupsOKAction)
  /\ formEvent' = "none"
  /\ UNCHANGED <<shMounted, shRoute, photometry, spectra, selectedPhotRows,
                 selectedSpecRows, isSubmitting, formGroups, errorsGroups,
                 shareReq, shFetched, pickedPhot, pickedSpec>>
  /\ UNCHANGED <<plotVars, viewVars, log, moreVars>>

\* a photometry request settles, or a push refreshes the list: the list of
\* the source is replaced
PhotFetched ==
  \E id \in shFetched : \E v \in PhotVersions(id) :
    /\ photometry' = Merge(photometry, [i \in {id} |-> PhotData(id, v)])
    /\ UNCHANGED <<selectedPhotRows, pickedPhot>>
    /\ formEvent' = "none"
    /\ UNCHANGED <<shMounted, shRoute, spectra, selectedSpecRows, isSubmitting,
                   formGroups, errorsGroups, shareReq, shFetched, pickedSpec>>
    /\ UNCHANGED <<storeVars, plotVars, viewVars, log, moreVars>>

\* the same for the spectra; deleteSpectrum ends in such a replacement
SpecFetched ==
  \E id \in shFetched : \E v \in SpecVersions(id) :
    /\ spectra' = Merge(spectra, [i \in {id} |-> SpecData(id, v)])
    /\ UNCHANGED <<selectedSpecRows, pickedSpec>>
    /\ formEvent' = "none"
    /\ UNCHANGED <<shMounted, shRoute, photometry, selectedPhotRows, isSubmitting,
                   formGroups, errorsGroups, shareReq, shFetched, pickedPhot>>
    /\ UNCHANGED <<storeVars, plotVars, viewVars, log, moreVars>>

\* onRowSelectionChange of the photometry table: a displayed row is toggled
SelectPhot ==
  /\ FormShown
  /\ shRoute \in DOMAIN photometry
  /\ \E idx \in Rows(photometry[shRoute]) :
       /\ selectedPhotRows' = Toggle(selectedPhotRows, idx)
       /\ pickedPhot' = TogglePicked(pickedPhot, idx, photometry[shRoute])
       /\ formEvent' = "none"
  /\ UNCHANGED <<shMounted, shRoute, photometry, spectra, selectedSpecRows,
                 isSubmitting, formGroups, errorsGroups, shareReq, shFetched,
                 pickedSpec>>
  /\ UNCHANGED <<storeVars, plotVars, viewVars, log, moreVars>>

\* onRowSelectionChange of the spectra table
SelectSpec ==
  /\ FormShown
  /\ shRoute \in DOMAIN spectra
  /\ \E idx \in Rows(spectra[shRoute]) :
       /\ selectedSpecRows' = Toggle(selectedSpecRows, idx)
       /\ pickedSpec' = TogglePicked(pickedSpec, idx, spectra[shRoute])
       /\ formEvent' = "none"
  /\ UNCHANGED <<shMounted, shRoute, photometry, spectra, selectedPhotRows,
                 isSubmitting, formGroups, errorsGroups, shareReq, shFetched,
                 pickedPhot>>
  /\ UNCHANGED <<storeVars, plotVars, viewVars, log, moreVars>>

\* the Autocomplete's onChange sets the groups field
ChangeGroups ==
  /\ FormShown
  /\ \E gs \in (SUBSET GroupOptions) \ {formGroups} : formGroups' = gs
  /\ formEvent' = "none"
  /\ UNCHANGED <<shMounted, shRoute, photometry, spectra, selectedPhotRows,
                 selectedSpecRows, isSubmitting, errorsGroups, shareReq,
                 shFetched, pickedPhot, pickedSpec>>
  /\ UNCHANGED <<storeVars, plotVars, viewVars, log, moreVars>>

\* a submit button that is never disabled
SubmitNeverDisabled(submitting) == FALSE

\* <Button type="submit" disabled={isSubmitting}>
SubmitDisabled(submitting) == submitting

\* the submit button (disabled while isSubmitting): handleSubmit validates and,
\* if the form is valid, runs onSubmit up to its await
Submit ==
  /\ FormShown
  /\ ~SubmitDisabled(isSubmitting)
  /\ IF ~validateGroups([groups |-> formGroups])
       THEN /\ errorsGroups' = TRUE
            /\ formEvent' = "submit_invalid"
            /\ UNCHANGED <<isSubmitting, shareReq>>
       ELSE /\ errorsGroups' = FALSE
            /\ IF Resolves(selectedPhotRows, photometry) /\ Resolves(selectedSpecRows, spectra)
                 THEN /\ isSubmitting' = TRUE
                      /\ shareReq' = Append(shareReq,
                           [groupIDs |-> formGroups,
                            photometryIDs |-> ResolveIDs(selectedPhotRows, photometry),
                            spectrumIDs |-> ResolveIDs(selectedSpecRows, spectra)])
                      /\ formEvent' = "submit"
                 ELSE \* TypeError in a map callback: onSubmit rejects before
                      \* setIsSubmitting(true)
                      /\ formEvent' = "submit_throws"
                      /\ UNCHANGED <<isSubmitting, shareReq>>
  /\ UNCHANGED <<shMounted, shRoute, photometry, spectra, selectedPhotRows,
                 selectedSpecRows, formGroups, shFetched, pickedPhot, pickedSpec>>
  /\ UNCHANGED <<storeVars, plotVars, viewVars, log, moreVars>>

\* the shareData request settles; onSubmit continues after its await
ShareSettles ==
  \E status \in {"success", "error"} :
    /\ shareReq # <<>>
    /\ shareReq' = Tail(shareReq)
    /\ IF status = "success"
         THEN /\ formGroups' = {}
              /\ errorsGroups' = FALSE
              /\ selectedPhotRows' = {}
              /\ selectedSpecRows' = {}
              /\ pickedPhot' = EmptyObj
              /\ pickedSpec' = EmptyObj
              /\ formEvent' = "settle_success"
         ELSE /\ formEvent' = "settle_error"
              /\ UNCHANGED <<formGroups, errorsGroups, selectedPhotRows,
                             selectedSpecRows, pickedPhot, pickedSpec>>
    /\ isSubmitting' = FALSE
    /\ UNCHANGED <<shMounted, shRoute, photometry, spectra, shFetched>>
    /\ UNCHANGED <<storeVars, plotVars, viewVars, log, moreVars>>

NextShare ==
  \/ ShareMount
  \/ ShareRouteChange
  \/ ShareUnmount
  \/ ShareGroupsLoaded
  \/ PhotFetched
  \/ SpecFetched
  \/ SelectPhot
  \/ SelectSpec
  \/ ChangeGroups
  \/ Submit
  \/ ShareSettles

SpecShare == Init /\ [][NextShare]_vars

-----------------------------------------------------------------------------
(* SpecList: the source list view (SourceList.jsx) over the sources branch. *)
(* fetchSources() issues a request that settles later; when it succeeds     *)
(* FETCH_SOURCES_OK is dispatched with the list.                            *)

\* a view that fetches whatever the branch holds
listFetchesAlways(sources) == TRUE

\* if (!sources.latest)
listNeedsFetch(sources) == sources.latest = "null"

\* useEffect(..., []): after the first render of a mount only
listEffectRuns(phase) == phase = "mount"

\* the effect: if (!sources.latest) dispatch(sourcesActions.fetchSources())
listEffect(phase, already) ==
  IF listEffectRuns(phase) /\ listNeedsFetch(store.sources)
    THEN /\ slInflight < MaxListInflight
         /\ slInflight' = slInflight + 1
         /\ slFetches' = already + 1
    ELSE /\ slInflight' = slInflight
         /\ slFetches' = already

\* the router shows the list view
ListMount ==
  /\ ~slMounted
  /\ slMounted' = TRUE
  /\ slNeeded' = (store.sources.latest = "null")
  /\ slRenders' = 1
  /\ listEffect("mount", 0)
  /\ UNCHANGED <<storeVars, plotVars, viewVars, log, formVars, pageVars, mainVars>>

\* the list view renders again
ListRerender ==
  /\ slMounted
  /\ slRenders < MaxListRenders
  /\ slRenders' = slRenders + 1
  /\ listEffect("update", slFetches)
  /\ UNCHANGED <<slMounted, slNeeded>>
  /\ UNCHANGED <<storeVars, plotVars, viewVars, log, formVars, pageVars, mainVars>>

ListUnmount ==
  /\ slMounted
  /\ slMounted' = FALSE
  /\ UNCHANGED <<slNeeded, slFetches, slRenders, slInflight>>
  /\ UNCHANGED <<storeVars, plotVars, viewVars, log, formVars, pageVars, mainVars>>

\* a fetchSources request succeeds
SourcesSettleOK ==
  \E p \in SourcesPayloads :
    /\ slInflight > 0
    /\ slInflight' = slInflight - 1
    /\ Dispatch(SourcesOKAction(p))
    /\ UNCHANGED <<slMounted, slNeeded, slFetches, slRenders>>
    /\ UNCHANGED <<plotVars, viewVars, log, formVars, pageVars, mainVars>>

\* a fetchSources request fails: no FETCH_SOURCES_OK is dispatched
SourcesSettleFail ==
  /\ slInflight > 0
  /\ slInflight' = slInflight - 1
  /\ UNCHANGED <<slMounted, slNeeded, slFetches, slRenders>>
  /\ UNCHANGED <<storeVars, plotVars, viewVars, log, formVars, pageVars, mainVars>>

\* another action reaches the store while the list view is up
ListOtherDispatch ==
  \E a \in {SourceFailAction, RotateLogoAction} :
    /\ Dispatch(a)
    /\ UNCHANGED <<plotVars, viewVars, otherVars>>

NextList ==
  \/ ListMount
  \/ ListRerender
  \/ ListUnmount
  \/ SourcesSettleOK
  \/ SourcesSettleFail
  \/ ListOtherDispatch

SpecList == Init /\ [][NextList]_vars

-----------------------------------------------------------------------------
(* SpecMain: the start-up of the main view (Main.jsx) over the store, with  *)
(* the responses of the requests and the pushes that reach the store in the *)
(* meantime.                                                                *)

\* componentDidMount without the await
CanRotateWithoutAwait(phase) == phase # "unmounted"

\* await store.dispatch(Action.hydrate()): the next statement runs once the
\* promise has settled
CanRotate(phase) == phase = "settled"

\* componentDidMount: store.dispatch(Action.hydrate())
MainMount ==
  /\ mainPhase = "unmounted"
  /\ mainPhase' = "hydrating"
  /\ UNCHANGED rotations
  /\ UNCHANGED <<storeVars, plotVars, viewVars, log, formVars, listVars, pageVars>>

\* the promise of the hydrate dispatch settles
HydrateSettles ==
  /\ mainPhase = "hydrating"
  /\ mainPhase' = "settled"
  /\ UNCHANGED rotations
  /\ UNCHANGED <<storeVars, plotVars, viewVars, log, formVars, listVars, pageVars>>

\* componentDidMount after the await: store.dispatch(Action.rotateLogo())
MainRotateLogo ==
  /\ CanRotate(mainPhase)
  /\ rotations = 0
  /\ rotations' = rotations + 1
  /\ Dispatch(RotateLogoAction)
  /\ UNCHANGED mainPhase
  /\ UNCHANGED <<plotVars, viewVars, log, formVars, listVars, pageVars>>

NextMain ==
  \/ MainMount
  \/ HydrateSettles
  \/ MainRotateLogo
  \/ SourceOK
  \/ SourceFail
  \/ SourcesOK
  \/ GroupOK
  \/ GroupFail
  \/ GroupsOK
  \/ UserOK
  \/ ProfileOK
  \/ Other

SpecMain == Init /\ [][NextMain]_vars

-----------------------------------------------------------------------------
(* SpecSpectra: the spectra page (SpectrumPage of Spectrum.jsx) over        *)
(* state.spectra, next to plot responses applied to the store.  A number is *)
(* [nan, v]: v is its value unless nan is TRUE.                             *)

\* the date a spectrum was observed at, as a day number
observed_at(spectrum) == 100 - spectrum

\* a comparator that reads the date of the spectrum
unixOfObservedAt(spectrum) == [nan |-> FALSE, v |-> observed_at(spectrum)]

\* dayjs(a).unix() with a spectrum object as a: dayjs makes new Date(a) of an
\* object that is neither a Date nor a string, an invalid date, whose unix()
\* is NaN
unix(spectrum) == [nan |-> TRUE, v |-> 0]

\* x - y
Minus(x, y) == [nan |-> x.nan \/ y.nan, v |-> x.v - y.v]

\* (a, b) => dayjs(a).unix() - dayjs(b).unix(), as Array.prototype.sort reads
\* it: NaN counts as +0
compare(a, b) ==
  LET d == Minus(unix(a), unix(b)) IN IF d.nan THEN 0 ELSE d.v

RECURSIVE InsertStable(_, _)
\* x is put behind the last element that does not compare greater than x
InsertStable(sorted, x) ==
  IF Len(sorted) = 0 THEN <<x>>
  ELSE LET last == sorted[Len(sorted)] IN
    IF compare(last, x) <= 0
      THEN Append(sorted, x)
      ELSE Append(InsertStable(SubSeq(sorted, 1, Len(sorted) - 1), x), last)

RECURSIVE sort(_)
\* Array.prototype.sort: a stable sort, and the array itself is sorted
sort(list) ==
  IF Len(list) = 0 THEN <<>>
  ELSE InsertStable(sort(SubSeq(list, 1, Len(list) - 1)), list[Len(list)])

\* the router shows the spectra page for an id; its effect requests the spectra
PageMount ==
  \E id \in SourceIds :
    /\ spRoute = NoRoute
    /\ spRoute' = id
    /\ spRenders' = 0
    /\ UNCHANGED <<storeVars, plotVars, viewVars, log, formVars, listVars, mainVars>>

PageUnmount ==
  /\ spRoute # NoRoute
  /\ spRoute' = NoRoute
  /\ spRenders' = 0
  /\ UNCHANGED <<storeVars, plotVars, viewVars, log, formVars, listVars, mainVars>>

\* fetchSourceSpectra(route.id) settles: the list of the source is replaced
PageSpectraFetched ==
  \E v \in SpecVersions(spRoute) :
    /\ spRoute # NoRoute
    /\ spectra' = Merge(spectra, [i \in {spRoute} |-> SpecData(spRoute, v)])
    /\ UNCHANGED <<shMounted, shRoute, photometry, selectedPhotRows, selectedSpecRows,
                   isSubmitting, formGroups, errorsGroups, shareReq, shFetched,
                   pickedPhot, pickedSpec, formEvent>>
    /\ UNCHANGED <<storeVars, plotVars, viewVars, log, moreVars>>

\* a render past the Loading branch: const sortedSpectra = spectra[route.id].sort(...)
PageRender ==
  /\ spRoute \in DOMAIN spectra
  /\ spRenders < MaxPageRenders
  /\ spRenders' = spRenders + 1
  /\ spectra' = [spectra EXCEPT ![spRoute] = sort(@)]
  /\ UNCHANGED spRoute
  /\ UNCHANGED <<shMounted, shRoute, photometry, selectedPhotRows, selectedSpecRows,
                 isSubmitting, formGroups, errorsGroups, shareReq, shFetched,
                 pickedPhot, pickedSpec, formEvent>>
  /\ UNCHANGED <<storeVars, plotVars, viewVars, log, listVars, mainVars>>

NextSpectra ==
  \/ PageMount
  \/ PageUnmount
  \/ PageSpectraFetched
  \/ PageRender
  \/ StorePlotOK
  \/ SourceOK

SpecSpectra == Init /\ [][NextSpectra]_vars

-----------------------------------------------------------------------------
(* The plot cache: properties *)

LastWasPut == lastAction.type = FETCH_SOURCE_PLOT_OK
PutUrl == lastAction.data.url
\* the keys of plotData before the last put, with the put's key, and after it
LiveBefore == DOMAIN prevStore.plots.plotData
LiveWithPut == LiveBefore \cup {PutUrl}
LiveAfter == DOMAIN store.plots.plotData
Evicted == LiveWithPut \ LiveAfter

\* C1: after any sequence of FETCH_SOURCE_PLOT_OK actions plotIDList has at
\* most 40 elements, every url of plotIDList is a key of plotData and every
\* key of plotData occurs in plotIDList.  (Truncation and sweep are one step
\* of the reducer: no state lies between them.)
C1_PlotCacheInvariant ==
  /\ Len(store.plots.plotIDList) <= 40
  /\ Elems(store.plots.plotIDList) \subseteq DOMAIN store.plots.plotData
  /\ DOMAIN store.plots.plotData \subseteq Elems(store.plots.plotIDList)

\* a put into a full list that truncated the list and swept a key away
C1_Witness ==
  /\ LastWasPut
  /\ Len(prevStore.plots.plotIDList) = 40
  /\ Len(store.plots.plotIDList) = 40
  /\ Evicted # {}

\* C2: after a put of url u, u is the head of plotIDList; keys are evicted
\* only if the number of live keys would exceed 40, and then exactly 40 live
\* keys remain.
C2_EvictOnlyAboveCapacity ==
  LastWasPut =>
    /\ Head(store.plots.plotIDList) = PutUrl
    /\ Evicted # {} => Cardinality(LiveWithPut) > 40
    /\ Cardinality(LiveWithPut) > 40 => Cardinality(LiveAfter) = 40

\* C3: a put of a url that is already in plotIDList leaves plotIDList as it
\* was and evicts no key.
C3_RePutMovesNothing ==
  (LastWasPut /\ PutUrl \in Elems(prevStore.plots.plotIDList)) =>
    /\ store.plots.plotIDList = prevStore.plots.plotIDList
    /\ Evicted = {}

\* C4: a key evicted by a put is the live key whose first insertion is the
\* oldest, however often and however recently keys were put again.
C4_EvictsOldestInserted ==
  LastWasPut =>
    \A e \in Evicted : \A k \in LiveWithPut : firstPut[e] <= firstPut[k]

-----------------------------------------------------------------------------
(* The branch reducers: properties *)

\* every branch whose reducer has no case for the action's type keeps its value
IdentityOn(action) ==
  /\ \A b \in Branches :
       action.type \notin Handled(b) => root(store, action)[b] = store[b]
  /\ action.type \notin Handled("duckGroup") => reducer(duckGroup, action) = duckGroup

\* C5: every branch reducer (source, sources, group, groups, users, profile,
\* plots, misc, and the group duck's reducer) returns its input unchanged,
\* and raises no error, for every state and every action whose type it has
\* no case for.
C5_UnrecognizedIsIdentity ==
  /\ \A id \in SourceIds : IdentityOn(SourceOKAction(id))
  /\ IdentityOn(SourceFailAction)
  /\ \A p \in SourcesPayloads : IdentityOn(SourcesOKAction(p))
  /\ IdentityOn(GroupOKAction)
  /\ IdentityOn(GroupFailAction)
  /\ IdentityOn(GroupsOKAction)
  /\ IdentityOn(UserOKAction)
  /\ IdentityOn(ProfileOKAction)
  /\ IdentityOn(RotateLogoAction)
  /\ \A url \in StorePlotUrls : IdentityOn(PlotOK(url, PlotPayload(FALSE)))
  /\ \A t \in OtherTypes : IdentityOn(OtherAction(t))
  /\ IdentityOn(InitAction)

\* an action no reducer knows was applied to a store none of whose branches
\* the claim names is at its default: nothing changed
C5_Witness ==
  /\ lastAction.type \in OtherTypes
  /\ store = prevStore
  /\ duckGroup = prevDuck
  /\ \A b \in Branches : store[b] # storeDefault[b]
  /\ duckGroup # EmptyObj

\* C6: FETCH_LOADED_SOURCE_FAIL sets loadError of the source branch and
\* leaves every other field of the branch as it was; loadError then stays
\* true under every action but FETCH_LOADED_SOURCE_OK, which clears it.
C6_SourceFailKeepsSource ==
  /\ lastAction.type = FETCH_LOADED_SOURCE_FAIL =>
       /\ DOMAIN store.source = DOMAIN prevStore.source \cup {"loadError"}
       /\ store.source.loadError = TRUE
       /\ \A k \in DOMAIN prevStore.source \ {"loadError"} :
            store.source[k] = prevStore.source[k]
  /\ (prevStore.source.loadError /\ lastAction.type # FETCH_LOADED_SOURCE_OK) =>
       store.source.loadError
  /\ lastAction.type = FETCH_LOADED_SOURCE_OK => ~store.source.loadError

\* the fetch of a source failed while source A was loaded: A is still there
C6_Witness ==
  /\ lastAction.type = FETCH_LOADED_SOURCE_FAIL
  /\ ~prevStore.source.loadError
  /\ "id" \in DOMAIN prevStore.source
  /\ prevStore.source.id = "A"
  /\ store.source.id = "A"
  /\ store.source.redshift = "z_A"
  /\ store.source.loadError

\* the branch has loadError set and keeps every field `before` had
FailFlagged(before, after) ==
  /\ "loadError" \in DOMAIN after
  /\ after.loadError = TRUE
  /\ \A k \in DOMAIN before : k \in DOMAIN after /\ after[k] = before[k]

\* C7: every _FAIL action sets loadError on its branch and keeps what the
\* branch held; FETCH_GROUP_FAIL leaves the group branch with loadError set
\* and the group fetched before still present.
C7_FailSetsLoadError ==
  /\ lastAction.type = FETCH_LOADED_SOURCE_FAIL =>
       FailFlagged(Without(prevStore.source, {"loadError"}), store.source)
  /\ lastAction.type = FETCH_GROUP_FAIL =>
       /\ FailFlagged(prevStore.group, store.group)
       /\ FailFlagged(prevDuck, duckGroup)

-----------------------------------------------------------------------------
(* The Source view: properties *)

\* C8: the view shows the loaded source if and only if the cached id equals
\* the route's id and no load error is recorded for that id; a load error
\* left by a failed fetch of another id does not make a matching cached
\* source show as failed.
C8_CachedIffIdMatchesAndNoErrorForIt ==
  mounted =>
    (Render(store.source, route) = "loaded"
       <=> (isCached(store.source, route) /\ errorFor # route))

\* C9: whenever a navigation (a mount, or a change of the route's id) finds
\* that a fetch is needed (ids differ, cache empty, or a load error is
\* recorded), fetchSource(route.id) is dispatched exactly once for it.
C9_FetchOncePerNeedsFetch ==
  (mounted /\ navNeeds) => navFetches = 1

\* C10: however often the Source view renders again without a new route id,
\* at most one fetchSource is dispatched for that id.
C10_RerenderDispatchesAtMostOnce ==
  navFetches <= 1

\* the view was rendered three times while loading after its mount
\* dispatched the fetch, which is still the only one
C10_Witness ==
  /\ mounted
  /\ renders >= 3
  /\ navFetches = 1
  /\ inflight[route] = 1
  /\ Render(store.source, route) = "Loading..."

\* C11: with fetchSource(A) dispatched and then fetchSource(B) for a new
\* route before A resolved, a FETCH_LOADED_SOURCE_OK whose id is not the id
\* the route requests is discarded, and once every response has arrived
\* without error the branch holds the source of the route.
C11_StaleResponseDiscarded ==
  /\ (mounted /\ navFetches = 1 /\ lastAction.type = FETCH_LOADED_SOURCE_OK
        /\ lastAction.data.id # route) => store.source = prevStore.source
  /\ (mounted /\ navFetches = 1 /\ InflightTotal = 0 /\ ~store.source.loadError) =>
       isCached(store.source, route)

\* C12: for every reachable source branch and route id the Source view
\* shows loading, loaded or load-failed, never "Source not found", and a
\* loaded source has an id.
C12_ThreeViewStates ==
  mounted =>
    /\ Render(store.source, route) \in
         {"Loading...", "loaded", "Could not retrieve requested source"}
    /\ Render(store.source, route) = "loaded" => "id" \in DOMAIN store.source

\* the view got past the loading and the not-found tests: it shows the source
C12_Witness ==
  /\ mounted
  /\ ~store.source.loadError
  /\ isCached(store.source, route)
  /\ Render(store.source, route) = "loaded"

\* C20: when two FETCH_LOADED_SOURCE_OK actions are applied one after the
\* other, both are applied, and the id and every field the later action
\* carries have the later action's values.
C20_LastAppliedWins ==
  lastAction.type = FETCH_LOADED_SOURCE_OK =>
    /\ \A k \in DOMAIN lastAction.data : store.source[k] = lastAction.data[k]
    /\ ~store.source.loadError

\* source B was applied to a branch that held source A, applied before
C20_Witness ==
  /\ lastAction.type = FETCH_LOADED_SOURCE_OK
  /\ lastAction.data.id = "B"
  /\ "id" \in DOMAIN prevStore.source
  /\ prevStore.source.id = "A"
  /\ store.source.id = "B"
  /\ store.source.ra = "ra_B"

\* C21: while the Source view shows route id X and the check reports X cached,
\* a FETCH_LOADED_SOURCE_OK for another source is applied to the store and the
\* check still reports X cached afterwards.
C21_OtherSourceUpdateKeepsCached ==
  [][(/\ mounted
      /\ route' = route
      /\ lastAction' # lastAction \/ store' # store
      /\ lastAction'.type = FETCH_LOADED_SOURCE_OK
      /\ lastAction'.data.id # route
      /\ isCached(store.source, route)) =>
       /\ \A k \in DOMAIN lastAction'.data : store'.source[k] = lastAction'.data[k]
       /\ isCached(store'.source, route)]_vars

\* the Source view is mounted on route id X and shows 'Loading...'
LoadingFor(X) == mounted /\ route = X /\ Render(store.source, X) = "Loading..."

\* C25: when every dispatched fetchSource settles, a Source view that shows
\* 'Loading...' for route id X does not show it for ever: it comes to show X
\* loaded or the load error (or is taken to another route or unmounted).
C25_LoadingEnds ==
  \A X \in SourceIds : LoadingFor(X) ~> ~LoadingFor(X)

\* the fields left in the source branch that neither the payload nor the
\* branch's default state has
LeftOver == DOMAIN store.source \ (DOMAIN lastAction.data \cup DOMAIN sourceDefault)

\* C26: after FETCH_LOADED_SOURCE_OK for one source is applied to a branch that
\* holds another source, no field of the other source that the payload does not
\* carry is left in the branch, and loadError is false.
C26_BranchDescribesPayloadOnly ==
  (/\ lastAction.type = FETCH_LOADED_SOURCE_OK
   /\ "id" \in DOMAIN prevStore.source
   /\ prevStore.source.id # lastAction.data.id) =>
     /\ LeftOver = {}
     /\ \A k \in DOMAIN lastAction.data : store.source[k] = lastAction.data[k]
     /\ ~store.source.loadError

\* C22: an action applied through the root reducer changes no branch whose
\* reducer has no case for its type: a plot response leaves the seven other
\* branches as they were, a source response leaves the plots branch as it was.
C22_BranchIsolation ==
  /\ \A b \in Branches :
       lastAction.type \notin Handled(b) => store[b] = prevStore[b]
  /\ lastAction.type = FETCH_SOURCE_PLOT_OK =>
       \A b \in Branches \ {"plots"} : store[b] = prevStore[b]
  /\ lastAction.type = FETCH_LOADED_SOURCE_OK => store.plots = prevStore.plots

\* a plot response was applied to a store whose source, groups and misc
\* branches had left their defaults: only the plots branch changed
C22_Witness ==
  /\ lastAction.type = FETCH_SOURCE_PLOT_OK
  /\ store.plots # prevStore.plots
  /\ "id" \in DOMAIN store.source
  /\ store.groups.all # "null"
  /\ store.misc.rotateLogo

-----------------------------------------------------------------------------
(* Dispatch order: properties *)

\* the store after the actions of `actions` were applied one by one, in order
RECURSIVE Replay(_)
Replay(actions) ==
  IF Len(actions) = 0
    THEN storeDefault
    ELSE root(Replay(SubSeq(actions, 1, Len(actions) - 1)), actions[Len(actions)])

-----------------------------------------------------------------------------
(* The share form: properties *)

SubmitKinds == {"submit_invalid", "submit", "submit_throws"}

\* C13: a submit click while the groups field is empty fails validation in the
\* form: onSubmit does not run, no shareData request is issued, isSubmitting
\* stays false and both selections are left as they were.
C13_EmptyGroupsFailsLocally ==
  [][(formGroups = {} /\ formEvent' \in SubmitKinds) =>
       /\ formEvent' = "submit_invalid"
       /\ errorsGroups'
       /\ shareReq' = shareReq
       /\ ~isSubmitting'
       /\ UNCHANGED <<selectedPhotRows, selectedSpecRows>>]_vars

C13_Witness ==
  /\ formEvent = "submit_invalid"
  /\ errorsGroups
  /\ formGroups = {}
  /\ selectedPhotRows = {0, 1}
  /\ selectedSpecRows = {1}
  /\ shareReq = <<>>
  /\ ~isSubmitting

\* C14: a submit click on a form with a group chosen issues one shareData
\* request; when the request settles with success both selections are empty and
\* the groups field is reset, and when it settles otherwise both selections are
\* left as they were.
C14_SingleRequestTwoOutcomes ==
  [][/\ (formGroups # {} /\ formEvent' \in SubmitKinds) =>
          (formEvent' = "submit" /\ Len(shareReq') = Len(shareReq) + 1)
     /\ formEvent' = "settle_success" =>
          (selectedPhotRows' = {} /\ selectedSpecRows' = {} /\ formGroups' = {})
     /\ formEvent' = "settle_error" =>
          UNCHANGED <<selectedPhotRows, selectedSpecRows>>]_vars

\* C15: the request a submit builds has one id per selected row of each table,
\* and the id at a selected row is the id of the record that was in that row
\* when the user selected it.
C15_RequestNamesSelectedRecords ==
  [][formEvent' = "submit" =>
       LET req == shareReq'[Len(shareReq')] IN
         /\ Cardinality(DOMAIN req.photometryIDs) = Cardinality(selectedPhotRows)
         /\ Cardinality(DOMAIN req.spectrumIDs) = Cardinality(selectedSpecRows)
         /\ req.photometryIDs = pickedPhot
         /\ req.spectrumIDs = pickedSpec]_vars

\* the list of the form's source is replaced by another list
Replaced(lists, listsAfter) ==
  /\ shMounted
  /\ shMounted'
  /\ shRoute' = shRoute
  /\ shRoute \in DOMAIN lists
  /\ listsAfter[shRoute] # lists[shRoute]

\* C16: when the photometry (the spectra) of the form's source is replaced in
\* the store while rows of that table are selected, the selection of that table
\* is cleared.
C16_ReplacedDatasetClearsSelection ==
  [][/\ (Replaced(photometry, photometry') /\ selectedPhotRows # {}) =>
          selectedPhotRows' = {}
     /\ (Replaced(spectra, spectra') /\ selectedSpecRows # {}) =>
          selectedSpecRows' = {}]_vars

\* the user toggles a row: neither a route change nor the end of a request
TableStep == shMounted /\ shMounted' /\ shRoute' = shRoute /\ formEvent' = "none"

\* C17: a change of one table's selection leaves the other table's selection
\* alone, and a change of the route's source id leaves no row selected.
C17_SelectionsIndependentAndScoped ==
  [][/\ (TableStep /\ selectedPhotRows' # selectedPhotRows) =>
          selectedSpecRows' = selectedSpecRows
     /\ (TableStep /\ selectedSpecRows' # selectedSpecRows) =>
          selectedPhotRows' = selectedPhotRows
     /\ (shMounted /\ shMounted' /\ shRoute' # shRoute) =>
          (selectedPhotRows' = {} /\ selectedSpecRows' = {})]_vars


\* C27: while the form is mounted every selected index is a row of the list
\* now in the store for the form's source, and no submit fails while it reads
\* the ids of the selected rows.
C27_SelectedIndicesValid ==
  /\ shMounted =>
       (Resolves(selectedPhotRows, photometry) /\ Resolves(selectedSpecRows, spectra))
  /\ formEvent # "submit_throws"

-----------------------------------------------------------------------------
(* The source list view: properties *)

\* C29: while the list view is mounted it has dispatched fetchSources once if
\* sources.latest was null when it mounted and never otherwise, however often
\* it rendered; FETCH_SOURCES_OK puts its payload in sources.latest and leaves
\* every other field of the sources branch as it was.
C29_ListFetchesOnceIffNoLatest ==
  /\ slMounted => slFetches = (IF slNeeded THEN 1 ELSE 0)
  /\ lastAction.type = FETCH_SOURCES_OK =>
       /\ store.sources.latest = lastAction.data
       /\ DOMAIN store.sources = DOMAIN prevStore.sources \cup {"latest"}
       /\ \A k \in DOMAIN prevStore.sources \ {"latest"} :
            store.sources[k] = prevStore.sources[k]

\* the view mounted on an empty branch, fetched, rendered again, and the
\* response was applied
C29_Witness ==
  /\ slMounted
  /\ slNeeded
  /\ slFetches = 1
  /\ slRenders >= 2
  /\ slInflight = 0
  /\ lastAction.type = FETCH_SOURCES_OK
  /\ store.sources.latest = "sources_2"


-----------------------------------------------------------------------------
(* The main view: properties *)

\* C30: the main view dispatches ROTATE_LOGO only once the hydrate dispatch
\* has settled and at most once per mount, and no action applied to a store
\* whose misc.rotateLogo is true makes it false.
C30_RotateAfterHydrateAndStays ==
  /\ rotations <= 1
  /\ rotations = 1 => mainPhase = "settled"
  /\ lastAction.type = ROTATE_LOGO => (mainPhase = "settled" /\ rotations = 1)
  /\ store.misc.rotateLogo <=> rotations = 1
  /\ prevStore.misc.rotateLogo => store.misc.rotateLogo

\* the logo was set rotating after the hydrate dispatch settled, and a failed
\* source load applied afterwards left it rotating
C30_Witness ==
  /\ mainPhase = "settled"
  /\ rotations = 1
  /\ prevStore.misc.rotateLogo
  /\ store.misc.rotateLogo
  /\ lastAction.type = FETCH_LOADED_SOURCE_FAIL


-----------------------------------------------------------------------------
(* Snapshots of the store: properties *)

\* C23: a snapshot of the store is not changed behind its reader: after the
\* reducers ran on an action the snapshot taken before still holds what it
\* held (plotsReducer writes to copies), and a render of the spectra page
\* leaves state.spectra, the list of its source included, as it was.
C23_SnapshotsImmutable ==
  [][/\ (lastAction' # lastAction \/ store' # store) => prevStore' = store
     /\ spRenders' = spRenders + 1 => spectra' = spectra]_vars

\* the page rendered twice over a list that is not in date order, after a plot
\* response was applied to the store
C23_Witness ==
  /\ spRoute = "A"
  /\ spRenders >= 2
  /\ "A" \in DOMAIN spectra
  /\ spectra["A"] = <<31, 32>>
  /\ observed_at(31) > observed_at(32)
  /\ lastAction.type = FETCH_SOURCE_PLOT_OK
  /\ prevStore.plots = plotsDefault
  /\ store.plots # plotsDefault

=============================================================================
